---- MODULE Spec2Model ----
(***************************************************************************)
(* The reliable datagram transport of pkg/libhttpserver/server.go: the     *)
(* packet codec, the per-peer receive loop of StartUDPServer and the       *)
(* response emitter.  Byte strings (Go []byte and string) are sequences of *)
(* numbers 0..255; text is written with its ASCII codes.                   *)
(***************************************************************************)
EXTENDS Integers, Sequences, FiniteSets, TLC

VARIABLES
    \* the session goroutine of StartUDPServer (server.go:275-369)
    expectedSeqNo, acks, naks, responseNaksList, httpPayload,
    totalNumPackets, responsePackets,
    status,      \* "running", or "panicked" once a Go run-time panic was raised
    out,         \* every datagram handed to udpConn.WriteToUDP, in order
    trace,       \* history: the packets the session dequeued, in order
    bridgeLog,   \* history: the request texts handed to handleUdpConnection
    \* one call of the codec (MakePacket, getBytesFromPacket, parsePacket)
    cin, cbytes, cpkt, cpc,
    \* one call of writeResponseToClient, one loop iteration per step
    ein, eidx, epkts, eout, epc,
    \* the server loop of StartUDPServer and the goroutines it spawns
    clients,     \* the registry (sync.Map): client key -> channel
    doneMap,     \* the done channels (sync.Map): client key -> pending values
    chans,       \* the channels made for the registry: buffer and closed flag
    tasks,       \* the session goroutines spawned, in order of creation
    wire,        \* history: client key -> the packets the loop decoded for it
    datagram,    \* the datagram last read, buffer[:n]
    process      \* "running", or "crashed" once a goroutine has panicked

sessionVars == <<expectedSeqNo, acks, naks, responseNaksList, httpPayload,
                 totalNumPackets, responsePackets, status, out, trace, bridgeLog>>
codecVars == <<cin, cbytes, cpkt, cpc>>
emitVars == <<ein, eidx, epkts, eout, epc>>
serverVars == <<clients, doneMap, chans, tasks, wire, datagram, process>>
vars == <<sessionVars, codecVars, emitVars, serverVars>>

(***************************************************************************)
(* Program constants.                                                      *)
(***************************************************************************)
HeaderLen == 11
ChunkSize == 1012
HttpPayloadLen == 1024
InboxCap == 1024
Colon == 58
InitialSeqNo == 4
HandshakeAck == 3
ByteRange == 256
MaxPayload == 1013

(***************************************************************************)
(* Bounds of the model.                                                    *)
(***************************************************************************)
MaxSteps == 4
MaxLongSteps == 6
MaxPackets == 3
MaxReads == 3
MaxOverflow == 1
MaxOtherReads == 2
MaxStalled == 1

(***************************************************************************)
(* encoding/binary and strconv/strings/fmt helpers.                        *)
(***************************************************************************)
\* A uint32 is the pair <<high half, low half>> of its 16-bit halves, so that
\* the full range 0..2^32-1 is exact.
Half == ByteRange * ByteRange

U32(n) == <<n \div Half, n % Half>>

MaxUint32 == <<Half - 1, Half - 1>>

\* v + 1 without the carry into the high half
Inc32NoCarry(v) == <<v[1], (v[2] + 1) % Half>>

\* v + 1 in uint32 arithmetic
Inc32(v) ==
    IF v[2] < Half - 1 THEN <<v[1], v[2] + 1>>
    ELSE <<(v[1] + 1) % Half, 0>>

Less32(a, b) == a[1] < b[1] \/ (a[1] = b[1] /\ a[2] < b[2])

\* int(v) of a uint32 below 2^16, and whether v is at least the int n < 2^16
Low(v) == v[2]
AtLeast(v, n) == v[1] > 0 \/ v[2] >= n

\* PutUint32 writing the low byte first
PutUint32LittleEndian(v) ==
    << v[2] % ByteRange, v[2] \div ByteRange, v[1] % ByteRange, v[1] \div ByteRange >>

\* binary.BigEndian.PutUint32 / Uint32
PutUint32(v) ==
    << v[1] \div ByteRange, v[1] % ByteRange, v[2] \div ByteRange, v[2] % ByteRange >>

Uint32(b) == << b[1] * ByteRange + b[2], b[3] * ByteRange + b[4] >>

PutUint16(v) == << (v \div ByteRange) % ByteRange, v % ByteRange >>

Uint16(b) == b[1] * ByteRange + b[2]

Dot == 46
Space == 32
IsDigit(c) == c \in 48..57

RECURSIVE DigitsVal(_)
DigitsVal(s) ==
    IF s = <<>> THEN 0
    ELSE DigitsVal(SubSeq(s, 1, Len(s) - 1)) * 10 + (s[Len(s)] - 48)

\* strconv.Atoi: an optional sign, then one or more decimal digits; on a
\* syntax error the value is 0 and err is set.
Atoi(s) ==
    LET signed == Len(s) > 0 /\ s[1] \in {43, 45}
        body == IF signed THEN Tail(s) ELSE s
        ok == Len(body) > 0 /\ \A i \in 1..Len(body) : IsDigit(body[i])
    IN  [val |-> IF ~ok THEN 0
                 ELSE IF signed /\ s[1] = 45 THEN 0 - DigitsVal(body)
                 ELSE DigitsVal(body),
         err |-> ~ok]

\* fmt.Sprintf("%d", n) for n >= 0
RECURSIVE Itoa(_)
Itoa(n) == IF n < 10 THEN <<48 + n>> ELSE Itoa(n \div 10) \o <<48 + (n % 10)>>

\* strings.Split(s, sep) for a one-byte separator
RECURSIVE Split(_, _)
Split(s, sep) ==
    IF \A i \in 1..Len(s) : s[i] # sep THEN <<s>>
    ELSE LET k == CHOOSE i \in 1..Len(s) :
                      s[i] = sep /\ \A j \in 1..(i - 1) : s[j] # sep
         IN  <<SubSeq(s, 1, k - 1)>> \o Split(SubSeq(s, k + 1, Len(s)), sep)

(***************************************************************************)
(* The packet codec.                                                       *)
(***************************************************************************)
\* parsePacket panics (index or slice bounds out of range) on fewer than 11 bytes
ParsePanics(data) == Len(data) < HeaderLen

parsePacket(data) ==
    [pType    |-> <<data[1]>>,
     seqNo    |-> SubSeq(data, 2, 5),
     peerAddr |-> SubSeq(data, 6, 9),
     peerPort |-> SubSeq(data, 10, 11),
     payload  |-> SubSeq(data, HeaderLen + 1, Len(data))]

getBytesFromPacket(packet) ==
    packet.pType \o packet.seqNo \o packet.peerAddr \o packet.peerPort \o packet.payload

MakePacket(pType, seqNo, addr, port, payload) ==
    LET peerAddrSplit == Split(addr, Dot)
    IN  [pType    |-> <<pType % ByteRange>>,
         seqNo    |-> PutUint32(seqNo),
         peerAddr |-> [i \in 1..4 |->
                          IF i <= Len(peerAddrSplit)
                          THEN Atoi(peerAddrSplit[i]).val % ByteRange ELSE 0],
         peerPort |-> PutUint16(port),
         payload  |-> payload]

getAddressFromBytes(packet) ==
    Itoa(packet.peerAddr[1]) \o <<Dot>> \o Itoa(packet.peerAddr[2]) \o <<Dot>>
        \o Itoa(packet.peerAddr[3]) \o <<Dot>> \o Itoa(packet.peerAddr[4])

getPortFromBytes(packet) == Uint16(packet.peerPort)

\* a text of the given length whose bytes follow a fixed pattern
Text(len, seed) == [i \in 1..len |-> (i * seed) % ByteRange]

(***************************************************************************)
(* The response emitter.                                                   *)
(***************************************************************************)
\* Go's len(b) and b[low:high] of a byte string
len(b) == Cardinality(DOMAIN b)

Slice(b, low, high) == [j \in 1..(high - low) |-> b[low + j]]

\* getResponsePacketBytes with the residue packet reusing the seqNo of the
\* chunk before it
getResponsePacketBytesStaleSeqNo(seqNo, hostAddr, port, payload) ==
    LET numPackets == (len(payload) + ChunkSize - 1) \div ChunkSize
        residue == len(payload) % ChunkSize
        counter == ChunkSize * (numPackets - 1)
    IN  IF numPackets = 1
        THEN << getBytesFromPacket(MakePacket(0, U32(seqNo), hostAddr, port, payload))
                    \o <<1>> >>
        ELSE [i \in 1..numPackets |->
                IF i < numPackets
                THEN getBytesFromPacket(
                         MakePacket(0, U32(seqNo + i - 1), hostAddr, port,
                             Slice(payload, ChunkSize * (i - 1), ChunkSize * i)))
                     \o <<numPackets % ByteRange>>
                ELSE IF residue > 0
                THEN getBytesFromPacket(
                         MakePacket(0, U32(seqNo + numPackets - 2), hostAddr, port,
                             Slice(payload, counter, len(payload))))
                     \o <<numPackets % ByteRange>>
                ELSE <<>>]

\* getResponsePacketBytes: the datagrams of a response, one per chunk; seqNo
\* is the small number the caller passes (1), counted up per chunk.  The
\* last slot stays nil (empty) when the length is a multiple of 1012 and
\* there is more than one packet: only the residue branch fills it.
getResponsePacketBytes(seqNo, hostAddr, port, payload) ==
    LET numPackets == (len(payload) + ChunkSize - 1) \div ChunkSize
        residue == len(payload) % ChunkSize
        counter == ChunkSize * (numPackets - 1)
    IN  IF numPackets = 1
        THEN << getBytesFromPacket(MakePacket(0, U32(seqNo), hostAddr, port, payload))
                    \o <<1>> >>
        ELSE [i \in 1..numPackets |->
                IF i < numPackets
                THEN getBytesFromPacket(
                         MakePacket(0, U32(seqNo + i - 1), hostAddr, port,
                             Slice(payload, ChunkSize * (i - 1), ChunkSize * i)))
                     \o <<numPackets % ByteRange>>
                ELSE IF residue > 0
                THEN getBytesFromPacket(
                         MakePacket(0, U32(seqNo + numPackets - 1), hostAddr, port,
                             Slice(payload, counter, len(payload))))
                     \o <<numPackets % ByteRange>>
                ELSE <<>>]

\* one iteration of the loop of writeResponseToClient: parse and retain the
\* datagram, then write it; parsePacket panics on the nil slot
WriteIteration(acc, packetBytes) ==
    IF acc.panic THEN acc
    ELSE IF ParsePanics(packetBytes) THEN [acc EXCEPT !.panic = TRUE]
    ELSE [packets |-> Append(acc.packets, parsePacket(packetBytes)),
          written |-> Append(acc.written, packetBytes),
          panic   |-> FALSE]

RECURSIVE WriteLoop(_, _, _)
WriteLoop(packetsBytes, i, acc) ==
    IF i > Len(packetsBytes) THEN acc
    ELSE WriteLoop(packetsBytes, i + 1, WriteIteration(acc, packetsBytes[i]))

\* writeResponseToClient, after the bridge has produced the response text
writeResponseToClient(response, hostAddr, hostPort) ==
    WriteLoop(getResponsePacketBytes(1, hostAddr, hostPort % (ByteRange * ByteRange), response),
              1, [packets |-> <<>>, written |-> <<>>, panic |-> FALSE])

\* sendUnreceivedResponsePackets: one retransmission per entry of the pending
\* list, in order; responsePackets[missingNo-1] panics when out of range
RECURSIVE sendUnreceivedResponsePackets(_, _, _)
sendUnreceivedResponsePackets(naksList, packets, acc) ==
    IF naksList = <<>> \/ acc.panic THEN acc
    ELSE LET missingNo == Uint32(Head(naksList).seqNo)
         IN  IF ~AtLeast(missingNo, 1) \/ AtLeast(missingNo, Len(packets) + 1)
             THEN [acc EXCEPT !.panic = TRUE]
             ELSE sendUnreceivedResponsePackets(Tail(naksList), packets,
                      [acc EXCEPT !.written =
                          Append(@, getBytesFromPacket(packets[Low(missingNo)]))])

\* remove: drops the first entry with the same seqNo
RECURSIVE remove(_, _)
remove(packetList, removePack) ==
    IF packetList = <<>> THEN <<>>
    ELSE IF Uint32(Head(packetList).seqNo) = Uint32(removePack.seqNo)
    THEN Tail(packetList)
    ELSE <<Head(packetList)>> \o remove(Tail(packetList), removePack)

(***************************************************************************)
(* The HTTP bridge.  Request texts of the model hold no CR or LF, so the   *)
(* request is its own first line.  The served directory does not change    *)
(* during a session: the response is a function of the request text.  The  *)
(* request "P " is served a document of two packets, every other request   *)
(* a status line alone.                                                    *)
(***************************************************************************)
\* parseRequestData panics at cleanedRequestLines[0] on an empty request and
\* at firstReqLine[1] on a request line without a space
BridgePanics(request) == request = <<>> \/ Len(Split(request, Space)) < 2

ShortResponse == <<72, 84, 84, 80, 47, 49, 46, 48, 32, 50, 48, 48>>

handleUdpConnection(request) ==
    IF request = <<80, 32>> THEN ShortResponse \o Text(ChunkSize, 7) ELSE ShortResponse

(***************************************************************************)
(* Reassembly helpers.  httpPayload is make([]string, 1024): every slot is *)
(* the empty string until written, and only written slots are kept here.   *)
(***************************************************************************)
Slot(hp, k) == IF k \in DOMAIN hp THEN hp[k] ELSE <<>>

Store(hp, k, chunk) == [j \in (DOMAIN hp) \cup {k} |-> IF j = k THEN chunk ELSE hp[j]]

inNaks(seqNo, nakList) == \E i \in 1..Len(nakList) : nakList[i] = seqNo

\* inAcks finding nothing: no DATA packet is taken for a duplicate
inAcksNever(seqNo, ackList) == FALSE

inAcks(seqNo, ackList) == \E i \in 1..Len(ackList) : ackList[i] = seqNo

\* httpPayload[4:(4 + totalNumPackets)] panics beyond the 1024 slots
SlicePanics(total) == InitialSeqNo + total > HttpPayloadLen

checkNotEmpty(hp, total) ==
    \A k \in InitialSeqNo..(InitialSeqNo + total - 1) : Len(Slot(hp, k)) # 0

RECURSIVE Concat(_, _, _)
Concat(hp, from, to) ==
    IF from > to THEN <<>> ELSE Slot(hp, from) \o Concat(hp, from + 1, to)

stringifyRequestPayload(hp, total) ==
    Concat(hp, InitialSeqNo, InitialSeqNo + total - 1)

(***************************************************************************)
(* The session goroutine: the body of the loop over the inbox, one packet  *)
(* per step.  A session value s holds the goroutine's variables.           *)
(***************************************************************************)
Panic(s) == [s EXCEPT !.status = "panicked"]

NoWrites == [written |-> <<>>, panic |-> FALSE]

\* NextExpected with the stale branch setting expectedSeqNo as the ahead one does
NextExpectedStaleResets(e, r) ==
    IF r = e THEN Inc32(e) ELSE Inc32(r)

\* server.go:308, 319, 320, 351: the new expectedSeqNo after DATA(r)
NextExpected(e, r) ==
    IF r = e THEN Inc32(e)
    ELSE IF Less32(r, e) THEN e
    ELSE Inc32(r)

\* server.go:341: the seqNos NAKed when DATA(r) arrives ahead of e; both are
\* below 1024 here, the store at httpPayload[r] having succeeded
Gap(e, r) ==
    IF Less32(e, r) THEN [i \in 1..(Low(r) - Low(e)) |-> U32(Low(e) + i - 1)] ELSE <<>>

\* server.go:316-352 after the ACK: store the chunk, NAK the gap, advance
Reorder(s, r, packet, hostAddr, port) ==
    LET gap == Gap(s.expectedSeqNo, r)
    IN  [s EXCEPT
           !.httpPayload = Store(@, Low(r), packet.payload),
           !.naks = @ \o gap,
           !.out = @ \o [i \in 1..Len(gap) |->
                           getBytesFromPacket(MakePacket(4, gap[i], hostAddr, port, <<>>))],
           !.expectedSeqNo = NextExpected(@, r)]

\* server.go:356, 360 and 400-412, 433-437: reassemble, call the bridge, emit
Respond(s, hostAddr, hostPort) ==
    LET request == stringifyRequestPayload(s.httpPayload, s.totalNumPackets)
        s1 == [s EXCEPT !.bridgeLog = Append(@, request)]
    IN  IF BridgePanics(request) THEN Panic(s1)
        ELSE LET w == writeResponseToClient(handleUdpConnection(request), hostAddr, hostPort)
             IN  [s1 EXCEPT
                    !.out = @ \o w.written,
                    !.responsePackets = IF w.panic THEN @ ELSE w.packets,
                    !.status = IF w.panic THEN "panicked" ELSE @]

\* server.go:353-362: the completeness check after every accepted DATA
Complete(s, hostAddr, hostPort) ==
    LET single == s.totalNumPackets = 1 /\ Len(Slot(s.httpPayload, InitialSeqNo)) > 0
    IN  IF single THEN Respond(s, hostAddr, hostPort)
        ELSE IF SlicePanics(s.totalNumPackets) THEN Panic(s)
        ELSE IF checkNotEmpty(s.httpPayload, s.totalNumPackets)
             THEN Respond(s, hostAddr, hostPort)
             ELSE s

\* server.go:303-363: a DATA packet
DataStep(s, packet) ==
    LET r == Uint32(packet.seqNo)
        hostAddr == getAddressFromBytes(packet)
        port == Uint16(packet.peerPort)
        ack == getBytesFromPacket(MakePacket(1, r, hostAddr, port, <<>>))
    IN  IF inAcks(r, s.acks) THEN s
        ELSE LET s1 == [s EXCEPT !.acks = Append(@, r), !.out = Append(@, ack)]
             IN  IF AtLeast(r, HttpPayloadLen) THEN Panic(s1)
                 ELSE Complete(Reorder(s1, r, packet, hostAddr, port),
                               hostAddr, getPortFromBytes(packet))

\* server.go:292-294: a NAK from the peer
NakStep(s, packet) ==
    LET pending == Append(s.responseNaksList, packet)
        w == sendUnreceivedResponsePackets(pending, s.responsePackets, NoWrites)
    IN  [s EXCEPT !.responseNaksList = pending,
                  !.out = @ \o w.written,
                  !.status = IF w.panic THEN "panicked" ELSE @]

\* AckStep treating the handshake ACK as the ACK of a response packet
AckStepNoHandshakeSkip(s, packet) ==
    LET pending == remove(s.responseNaksList, packet)
        w == sendUnreceivedResponsePackets(pending, s.responsePackets, NoWrites)
    IN  [s EXCEPT !.responseNaksList = pending,
                  !.out = @ \o w.written,
                  !.status = IF w.panic THEN "panicked" ELSE @]

\* server.go:295-301: an ACK from the peer
AckStep(s, packet) ==
    IF Uint32(packet.seqNo) = U32(HandshakeAck) THEN s
    ELSE LET pending == remove(s.responseNaksList, packet)
             w == sendUnreceivedResponsePackets(pending, s.responsePackets, NoWrites)
         IN  [s EXCEPT !.responseNaksList = pending,
                       !.out = @ \o w.written,
                       !.status = IF w.panic THEN "panicked" ELSE @]

\* SynStep replying with the type byte of an ACK
SynStepAckTyped(s, packet) ==
    LET hostAddr == getAddressFromBytes(packet)
        receivedSeq == Uint32(packet.seqNo)
        total == Atoi(packet.payload)
        synAck == MakePacket(1, Inc32(receivedSeq), hostAddr,
                             Uint16(packet.peerPort), <<>>)
    IN  [s EXCEPT !.out = Append(@, getBytesFromPacket(synAck)),
                  !.totalNumPackets = IF total.val > 0 THEN total.val ELSE @]

\* server.go:364-367 and 486-506: a SYN
SynStep(s, packet) ==
    LET hostAddr == getAddressFromBytes(packet)
        receivedSeq == Uint32(packet.seqNo)
        total == Atoi(packet.payload)
        synAck == MakePacket(3, Inc32(receivedSeq), hostAddr,
                             Uint16(packet.peerPort), <<>>)
    IN  [s EXCEPT !.out = Append(@, getBytesFromPacket(synAck)),
                  !.totalNumPackets = IF total.val > 0 THEN total.val ELSE @]

Session ==
    [expectedSeqNo |-> expectedSeqNo, acks |-> acks, naks |-> naks,
     responseNaksList |-> responseNaksList, httpPayload |-> httpPayload,
     totalNumPackets |-> totalNumPackets, responsePackets |-> responsePackets,
     status |-> status, out |-> out, bridgeLog |-> bridgeLog]

Becomes(s) ==
    /\ expectedSeqNo' = s.expectedSeqNo
    /\ acks' = s.acks
    /\ naks' = s.naks
    /\ responseNaksList' = s.responseNaksList
    /\ httpPayload' = s.httpPayload
    /\ totalNumPackets' = s.totalNumPackets
    /\ responsePackets' = s.responsePackets
    /\ status' = s.status
    /\ out' = s.out
    /\ bridgeLog' = s.bridgeLog

(***************************************************************************)
(* The packets a peer may send to its session.                             *)
(***************************************************************************)
PeerAddr == <<49, 50, 55, 46, 48, 46, 48, 46, 49>>
PeerPort == Uint16(<<163, 102>>)

\* what the server loop hands to the session: parsePacket of the datagram
Inbound(pType, seqNo, payload) ==
    parsePacket(getBytesFromPacket(MakePacket(pType, seqNo, PeerAddr, PeerPort, payload)))

\* SYN payloads "1", "2", "3", "x" and "1021"
SynPayloads == {<<49>>, <<50>>, <<51>>, <<120>>, <<49, 48, 50, 49>>}
\* DATA payloads "", "G " and "P " at the seqNos of a request, and one DATA
\* each at seqNo 0 and at the first seqNo beyond the reassembly buffer
DataPayloads == {<<>>, <<71, 32>>, <<80, 32>>}
DataInputs ==
    {<<r, payload>> : r \in InitialSeqNo..(InitialSeqNo + 2), payload \in DataPayloads}
        \cup {<<0, <<71, 32>>>>, <<HttpPayloadLen, <<71, 32>>>>}
\* a SYN carries seqNo 2; one SYN carries the largest seqNo, 2^32-1
SynInputs ==
    {<<U32(2), payload>> : payload \in SynPayloads} \cup {<<MaxUint32, <<49>>>>}
NakSeqNos == {1, 2}
AckSeqNos == {2, HandshakeAck}
OtherTypes == {3, 7}

\* a narrower alphabet for longer runs
LongSynPayloads == {<<49>>, <<50>>}
LongDataInputs == {<<InitialSeqNo, <<80, 32>>>>, <<InitialSeqNo + 1, <<71, 32>>>>}
LongAckSeqNos == {2}
LongSynInputs == {<<U32(2), payload>> : payload \in LongSynPayloads}

SessionInit ==
    /\ expectedSeqNo = U32(InitialSeqNo)
    /\ acks = [i \in 1..5 |-> U32(0)]
    /\ naks = [i \in 1..5 |-> U32(0)]
    /\ responseNaksList = <<>>
    /\ httpPayload = <<>>
    /\ totalNumPackets = 0
    /\ responsePackets = <<>>
    /\ status = "running"
    /\ out = <<>>
    /\ trace = <<>>
    /\ bridgeLog = <<>>

CodecIdle == cin = <<>> /\ cbytes = <<>> /\ cpkt = <<>> /\ cpc = "idle"
EmitIdle == ein = <<>> /\ eidx = 0 /\ epkts = <<>> /\ eout = <<>> /\ epc = "idle"

\* server.go:256-257: the loop has read nothing yet, both maps are empty
ServerInit ==
    /\ clients = <<>>
    /\ doneMap = <<>>
    /\ chans = <<>>
    /\ tasks = <<>>
    /\ wire = <<>>
    /\ datagram = <<>>
    /\ process = "running"

Init == SessionInit /\ CodecIdle /\ EmitIdle /\ ServerInit

Dequeue(packet, bound) ==
    /\ status = "running"
    /\ Len(trace) < bound
    /\ trace' = Append(trace, packet)
    /\ UNCHANGED <<codecVars, emitVars, serverVars>>

DataAction(inputs, bound) ==
    \E in \in inputs :
        LET packet == Inbound(0, U32(in[1]), in[2])
        IN  Dequeue(packet, bound) /\ Becomes(DataStep(Session, packet))

NakAction(seqNos, bound) ==
    \E r \in seqNos :
        LET packet == Inbound(4, U32(r), <<>>)
        IN  Dequeue(packet, bound) /\ Becomes(NakStep(Session, packet))

AckAction(seqNos, bound) ==
    \E r \in seqNos :
        LET packet == Inbound(1, U32(r), <<>>)
        IN  Dequeue(packet, bound) /\ Becomes(AckStep(Session, packet))

SynAction(inputs, bound) ==
    \E in \in inputs :
        LET packet == Inbound(2, in[1], in[2])
        IN  Dequeue(packet, bound) /\ Becomes(SynStep(Session, packet))

\* a SYN-ACK or an unknown type: no branch of the loop body applies
OtherAction(types, bound) ==
    \E t \in types :
        LET packet == Inbound(t, U32(2), <<>>)
        IN  Dequeue(packet, bound) /\ Becomes(Session)

HandleData == DataAction(DataInputs, MaxSteps)
HandleNak == NakAction(NakSeqNos, MaxSteps)
HandleAck == AckAction(AckSeqNos, MaxSteps)
HandleSyn == SynAction(SynInputs, MaxSteps)
HandleOther == OtherAction(OtherTypes, MaxSteps)

Next == HandleData \/ HandleNak \/ HandleAck \/ HandleSyn \/ HandleOther

Spec == Init /\ [][Next]_vars

\* the same session under the narrower alphabet, for longer runs
LongData == DataAction(LongDataInputs, MaxLongSteps)
LongNak == NakAction(NakSeqNos, MaxLongSteps)
LongAck == AckAction(LongAckSeqNos, MaxLongSteps)
LongSyn == SynAction(LongSynInputs, MaxLongSteps)

NextLong == LongData \/ LongNak \/ LongAck \/ LongSyn

SpecLong == Init /\ [][NextLong]_vars

(***************************************************************************)
(* One call of the codec: MakePacket, getBytesFromPacket, parsePacket.     *)
(***************************************************************************)
\* fmt.Sprintf("%d.%d.%d.%d", ...) of four octets
Dotted(o) ==
    Itoa(o[1]) \o <<Dot>> \o Itoa(o[2]) \o <<Dot>> \o Itoa(o[3]) \o <<Dot>> \o Itoa(o[4])

CodecTypes == {0, 1, 2, 3, 4, ByteRange - 1}
CodecSeqNos == {U32(0), U32(InitialSeqNo), <<1, 2>>, <<258, 772>>, MaxUint32}
CodecOctets == {<<127, 0, 0, 1>>, <<10, 0, 2, 255>>, <<192, 168, 1, 10>>, <<0, 0, 0, 0>>}
CodecPorts == {0, 80, 8080, Half - 1}
CodecPayloads == {<<>>, <<0>>, <<255, 10>>, Text(MaxPayload, 3)}

CodecInit ==
    /\ cin \in [pType : CodecTypes, seqNo : CodecSeqNos, octets : CodecOctets,
                port : CodecPorts, payload : CodecPayloads]
    /\ cbytes = <<>>
    /\ cpkt = <<>>
    /\ cpc = "input"

CodecMake ==
    /\ cpc = "input"
    /\ cpkt' = MakePacket(cin.pType, cin.seqNo, Dotted(cin.octets), cin.port, cin.payload)
    /\ cpc' = "made"
    /\ UNCHANGED <<cin, cbytes, sessionVars, emitVars, serverVars>>

CodecEncode ==
    /\ cpc = "made"
    /\ cbytes' = getBytesFromPacket(cpkt)
    /\ cpc' = "encoded"
    /\ UNCHANGED <<cin, cpkt, sessionVars, emitVars, serverVars>>

CodecDecode ==
    /\ cpc = "encoded"
    /\ ~ParsePanics(cbytes)
    /\ cpkt' = parsePacket(cbytes)
    /\ cpc' = "decoded"
    /\ UNCHANGED <<cin, cbytes, sessionVars, emitVars, serverVars>>

InitCodec == SessionInit /\ CodecInit /\ EmitIdle /\ ServerInit
NextCodec == CodecMake \/ CodecEncode \/ CodecDecode
SpecCodec == InitCodec /\ [][NextCodec]_vars

(***************************************************************************)
(* One call of writeResponseToClient on a response text, one iteration of  *)
(* its loop per step.                                                      *)
(***************************************************************************)
Residues == {1, 500, ChunkSize - 1, ChunkSize}
EmitLens ==
    {ChunkSize * (n - 1) + r : n \in 1..MaxPackets, r \in Residues}
        \cup {ChunkSize * (ByteRange - 1) + 1}
EmitSeeds == {1, 7}

EmitResponse == Text(ein.len, ein.seed)

EmitPacketsBytes == getResponsePacketBytes(1, PeerAddr, PeerPort, EmitResponse)

EmitCount == (ein.len + ChunkSize - 1) \div ChunkSize

EmitInit ==
    /\ ein \in [len : EmitLens, seed : EmitSeeds]
    /\ eidx = 0
    /\ epkts = <<>>
    /\ eout = <<>>
    /\ epc = "loop"

EmitIterate ==
    /\ epc = "loop"
    /\ eidx < EmitCount
    /\ LET acc == WriteIteration([packets |-> epkts, written |-> eout, panic |-> FALSE],
                                 EmitPacketsBytes[eidx + 1])
       IN  /\ epkts' = acc.packets
           /\ eout' = acc.written
           /\ epc' = IF acc.panic THEN "panicked" ELSE "loop"
    /\ eidx' = eidx + 1
    /\ UNCHANGED <<ein, sessionVars, codecVars, serverVars>>

EmitReturn ==
    /\ epc = "loop"
    /\ eidx = EmitCount
    /\ epc' = "returned"
    /\ UNCHANGED <<ein, eidx, epkts, eout, sessionVars, codecVars, serverVars>>

InitEmit == SessionInit /\ CodecIdle /\ EmitInit /\ ServerInit
NextEmit == EmitIterate \/ EmitReturn
SpecEmit == InitEmit /\ [][NextEmit]_vars

(***************************************************************************)
(* The server loop of StartUDPServer: one iteration per step, and one      *)
(* packet of one session goroutine per step.  A channel buffer, and each   *)
(* history, is a FIFO sequence kept as runs: equal consecutive entries are *)
(* one run [item, n].                                                      *)
(***************************************************************************)
RECURSIVE BufLen(_)
BufLen(buf) == IF buf = <<>> THEN 0 ELSE buf[1].n + BufLen(Tail(buf))

\* the entry x put behind the last one
Push(buf, x) ==
    IF buf # <<>> /\ buf[Len(buf)].item = x
    THEN [buf EXCEPT ![Len(buf)].n = @ + 1]
    ELSE Append(buf, [item |-> x, n |-> 1])

\* the entries one by one, oldest first
RECURSIVE Expand(_)
Expand(buf) ==
    IF buf = <<>> THEN <<>>
    ELSE [i \in 1..buf[1].n |-> buf[1].item] \o Expand(Tail(buf))

\* a receive that takes the newest entry of the buffer
ReceiveNewest(buf) ==
    [packet |-> buf[Len(buf)].item,
     rest   |-> IF buf[Len(buf)].n > 1 THEN [buf EXCEPT ![Len(buf)].n = @ - 1]
                ELSE SubSeq(buf, 1, Len(buf) - 1)]

\* server.go:286: a receive from a non-empty channel takes the oldest entry
Receive(buf) ==
    [packet |-> buf[1].item,
     rest   |-> IF buf[1].n > 1 THEN [buf EXCEPT ![1].n = @ - 1] ELSE Tail(buf)]

\* a send that enqueues whatever the buffer holds
OfferUnbounded(buf, packet) == Push(buf, packet)

\* server.go:380-384: the send of a select with a default case, on a channel
\* of capacity 1024: the packet is enqueued, or dropped when the buffer is full
Offer(buf, packet) ==
    IF BufLen(buf) < InboxCap THEN Push(buf, packet) ELSE buf

\* sync.Map: LoadOrStore, and the map without a key
LoadOrStore(m, key, value) ==
    [k \in (DOMAIN m) \cup {key} |-> IF k \in DOMAIN m THEN m[k] ELSE value]

Delete(m, key) == [k \in (DOMAIN m) \ {key} |-> m[k]]

\* a client key that leaves the port out
ClientKeyAddrOnly(packet) == getAddressFromBytes(packet)

\* server.go:270: fmt.Sprintf("%s:%d", hostAddr, hostPort)
ClientKey(packet) ==
    getAddressFromBytes(packet) \o <<Colon>> \o Itoa(getPortFromBytes(packet))

\* server.go:414-422: timeOut removes the key and closes its channel
timeOut(registry, channels, hostAddr) ==
    IF hostAddr \notin DOMAIN registry
    THEN [clients |-> registry, chans |-> channels]
    ELSE [clients |-> Delete(registry, hostAddr),
          chans   |-> [channels EXCEPT ![registry[hostAddr]].closed = TRUE]]

\* server.go:276-283: the variables of a goroutine just spawned
FreshSession ==
    [expectedSeqNo |-> U32(InitialSeqNo),
     acks |-> [i \in 1..5 |-> U32(0)],
     naks |-> [i \in 1..5 |-> U32(0)],
     responseNaksList |-> <<>>, httpPayload |-> <<>>, totalNumPackets |-> 0,
     responsePackets |-> <<>>, status |-> "running", out |-> <<>>,
     bridgeLog |-> <<>>]

\* server.go:286-368: the loop body on one packet, by its type byte
Handle(s, packet) ==
    IF packet.pType = <<4>> THEN NakStep(s, packet)
    ELSE IF packet.pType = <<1>> THEN AckStep(s, packet)
    ELSE IF packet.pType = <<0>> THEN DataStep(s, packet)
    ELSE IF packet.pType = <<2>> THEN SynStep(s, packet)
    ELSE s

\* how many packets the loop has decoded for a key
Reads(key) == IF key \in DOMAIN wire THEN BufLen(wire[key]) ELSE 0

\* server.go:258-385: one iteration of the server loop on a datagram read.  An
\* input is a datagram with the number of packets the model reads for its key.
Serve(inputs) ==
    \E in \in inputs :
        /\ process = "running"
        /\ datagram' = in[1]
        /\ IF ParsePanics(in[1])
           THEN /\ process' = "crashed"
                /\ UNCHANGED <<clients, doneMap, chans, tasks, wire>>
           ELSE LET packet == parsePacket(in[1])
                    clientKey == ClientKey(packet)
                    loaded == clientKey \in DOMAIN clients
                    made == Append(chans, [buf |-> <<>>, closed |-> FALSE])
                    registry == LoadOrStore(clients, clientKey, Len(made))
                    channels == IF loaded THEN chans ELSE made
                    clientPackets == registry[clientKey]
                    dones == LoadOrStore(doneMap, clientKey, <<>>)
                    spawned == [key |-> clientKey, ch |-> clientPackets,
                                s |-> FreshSession, dequeued |-> <<>>,
                                pc |-> "ranging"]
                IN  /\ Reads(clientKey) < in[2]
                    /\ wire' = [LoadOrStore(wire, clientKey, <<>>)
                                   EXCEPT ![clientKey] = Push(@, packet)]
                    /\ tasks' = IF loaded THEN tasks ELSE Append(tasks, spawned)
                    /\ process' = process
                    /\ IF dones[clientKey] # <<>>
                       THEN LET removed == timeOut(registry, channels, clientKey)
                            IN  /\ doneMap' = [dones EXCEPT ![clientKey] = Tail(@)]
                                /\ clients' = IF Head(dones[clientKey])
                                              THEN removed.clients ELSE registry
                                /\ chans' = IF Head(dones[clientKey])
                                            THEN removed.chans ELSE channels
                       ELSE /\ doneMap' = dones
                            /\ clients' = registry
                            /\ chans' = [channels EXCEPT ![clientPackets].buf =
                                            Offer(@, packet)]
        /\ UNCHANGED <<sessionVars, codecVars, emitVars>>

\* server.go:286-368: a session goroutine receives the next packet of its
\* channel and runs the loop body on it, or leaves the loop when the channel
\* is closed and drained; a panic of the goroutine ends the process
TaskStep(bound) ==
    \E i \in 1..Len(tasks) :
        LET task == tasks[i]
            ch == chans[task.ch]
        IN  /\ process = "running"
            /\ task.pc = "ranging"
            /\ BufLen(task.dequeued) < bound
            /\ IF ch.buf # <<>>
               THEN LET got == Receive(ch.buf)
                        s == Handle(task.s, got.packet)
                    IN  /\ chans' = [chans EXCEPT ![task.ch].buf = got.rest]
                        /\ tasks' = [tasks EXCEPT
                                        ![i].s = s,
                                        ![i].dequeued = Push(@, got.packet)]
                        /\ process' = IF s.status = "panicked" THEN "crashed"
                                      ELSE process
               ELSE /\ ch.closed
                    /\ tasks' = [tasks EXCEPT ![i].pc = "returned"]
                    /\ UNCHANGED <<chans, process>>
            /\ UNCHANGED <<clients, doneMap, wire, datagram>>
            /\ UNCHANGED <<sessionVars, codecVars, emitVars>>

\* a second peer, at the next port of the same address
OtherPort == PeerPort + 1

Datagram(pType, seqNo, port, payload) ==
    getBytesFromPacket(MakePacket(pType, seqNo, PeerAddr, port, payload))

\* the request of one DATA packet, "G ", of a peer
RequestDatagrams(port) ==
    {Datagram(2, U32(2), port, <<49>>),
     Datagram(0, U32(InitialSeqNo), port, <<71, 32>>)}

\* the peer's ACK of the one packet of the response
ResponseAck(port) == Datagram(1, U32(1), port, <<>>)

\* datagrams shorter than a header: empty, and ten bytes
ShortDatagrams ==
    {<<>>, SubSeq(Datagram(2, U32(2), PeerPort, <<49>>), 1, HeaderLen - 1)}

ServerInputs ==
    {<<d, MaxReads>> : d \in RequestDatagrams(PeerPort) \cup {ResponseAck(PeerPort)}}
        \cup {<<d, MaxOtherReads>> : d \in RequestDatagrams(OtherPort)}
        \cup {<<d, 0>> : d \in ShortDatagrams}

ReadDatagram == Serve(ServerInputs)
SessionTask == TaskStep(MaxReads)

InitServer == SessionInit /\ CodecIdle /\ EmitIdle /\ ServerInit
NextServer == ReadDatagram \/ SessionTask
SpecServer == InitServer /\ [][NextServer]_vars

\* the scheduler runs a goroutine that can take a step: the loop reads the
\* datagrams that arrive, and once it has read them all the session
\* goroutines with a packet to receive are the only ones left to run
FairServer == SpecServer /\ WF_vars(ReadDatagram) /\ WF_vars(NextServer)

\* one peer floods its session, which handles a few packets and stalls, with
\* handshake ACKs; a second peer sends its SYN
FloodInputs ==
    {<<Datagram(1, U32(HandshakeAck), PeerPort, <<>>), InboxCap + MaxOverflow>>,
     <<Datagram(2, U32(2), OtherPort, <<49>>), MaxOtherReads>>}

FloodRead == Serve(FloodInputs)
FloodTask == TaskStep(MaxStalled)

NextFlood == FloodRead \/ FloodTask
SpecFlood == InitServer /\ [][NextFlood]_vars

(***************************************************************************)
(* Properties of the session.                                              *)
(***************************************************************************)
IsType(packet, t) == packet.pType = <<t>>

\* the seqNos a request's DATA packets use in the model
RequestSeqNos == InitialSeqNo..(InitialSeqNo + 2)

\* how many DATA packets with seqNo k the session has dequeued
DataDequeued(k) ==
    Cardinality({i \in 1..Len(trace) :
        IsType(trace[i], 0) /\ Uint32(trace[i].seqNo) = U32(k)})

\* how many ACK datagrams with seqNo k the session has written
AcksEmitted(k) ==
    Cardinality({i \in 1..Len(out) :
        IsType(parsePacket(out[i]), 1) /\ Uint32(parsePacket(out[i]).seqNo) = U32(k)})

\* C1: every DATA packet with seqNo r that the session dequeues causes one
\* ACK with seqNo r, retransmitted copies included: k copies of DATA(r)
\* dequeued, k ACK(r) emitted.
C1_EveryCopyAcked ==
    \A k \in RequestSeqNos : AcksEmitted(k) = DataDequeued(k)

\* what the code does instead: one ACK for the first copy of each seqNo and
\* none for the copies dropped by the inAcks test
C1_FirstCopyAcked ==
    \A k \in RequestSeqNos :
        AcksEmitted(k) = IF DataDequeued(k) > 0 THEN 1 ELSE 0

\* some DATA packet arrived ahead of expectedSeqNo and its gap was NAKed
AheadObserved == Len(naks) > 5

\* the largest DATA seqNo dequeued so far (below 2^16 in the model)
MaxObserved ==
    LET seen == {Low(Uint32(trace[i].seqNo)) : i \in {j \in 1..Len(trace) : IsType(trace[j], 0)}}
    IN  IF seen = {} THEN 0 ELSE CHOOSE m \in seen : \A n \in seen : n <= m

C2_GapCoverageOrEmptyAccepted ==
    (status = "running" /\ AheadObserved) =>
        \A k \in InitialSeqNo..MaxObserved :
            \/ Len(Slot(httpPayload, k)) > 0
            \/ inNaks(U32(k), naks)
            \/ inAcks(U32(k), acks)

\* C3: expectedSeqNo starts at 4 and no step of the session, whatever the
\* packet dequeued, decreases it.
C3_ExpectedMonotonic ==
    /\ expectedSeqNo = U32(InitialSeqNo)
    /\ [][~Less32(expectedSeqNo', expectedSeqNo)]_vars

\* expectedSeqNo has jumped over a gap and a stale DATA was accepted after it
C3_Witness ==
    /\ expectedSeqNo = U32(InitialSeqNo + 3)
    /\ inNaks(U32(InitialSeqNo), naks)
    /\ inAcks(U32(InitialSeqNo), acks)

\* the packet count announced by the SYN that opens the run
Announced == Atoi(trace[1].payload).val

\* the run so far is a SYN announcing K > 0 followed by DATA packets with
\* distinct seqNos in 4..4+K-1, in any order, each with a non-empty chunk
RequestRun ==
    /\ Len(trace) >= 1
    /\ IsType(trace[1], 2)
    /\ Announced > 0
    /\ \A i \in 2..Len(trace) :
          /\ IsType(trace[i], 0)
          /\ trace[i].payload # <<>>
          /\ ~Less32(Uint32(trace[i].seqNo), U32(InitialSeqNo))
          /\ ~AtLeast(Uint32(trace[i].seqNo), InitialSeqNo + Announced)
          /\ \A j \in 2..(i - 1) : trace[j].seqNo # trace[i].seqNo

\* the chunk the peer sent with seqNo k, and the request text they make up
ChunkSent(k) ==
    LET i == CHOOSE j \in 2..Len(trace) : Uint32(trace[j].seqNo) = U32(k)
    IN  trace[i].payload

RECURSIVE OriginalText(_, _)
OriginalText(from, to) ==
    IF from > to THEN <<>> ELSE ChunkSent(from) \o OriginalText(from + 1, to)

RoundTrip ==
    /\ status = "running"
    /\ Len(trace) = Announced + 1 =>
          LET original == OriginalText(InitialSeqNo, InitialSeqNo + Announced - 1)
          IN  /\ stringifyRequestPayload(httpPayload, totalNumPackets) = original
              /\ bridgeLog = <<original>>

\* C4: after a SYN announcing K packets, the DATA packets 4..4+K-1 are
\* handled in any order they arrive in, and once the last of them is
\* handled the concatenation of reassembly[4..4+K) is the original request
\* text and is what was handed to the HTTP bridge.
C4_ReassemblyRoundTrip == RequestRun => RoundTrip

\* the same for the announced counts that fit the 1024 reassembly slots
C4_RoundTripWithinBuffer ==
    (RequestRun /\ ~SlicePanics(Announced)) => RoundTrip

\* a step that dequeues a DATA packet not yet accepted, ahead of expectedSeqNo
AheadStep ==
    /\ Len(trace') = Len(trace) + 1
    /\ IsType(trace'[Len(trace')], 0)
    /\ ~inAcks(Uint32(trace'[Len(trace')].seqNo), acks)
    /\ Less32(expectedSeqNo, Uint32(trace'[Len(trace')].seqNo))

\* its effects: ACK(r) first, then NAK(k) for k = expectedSeqNo..r-1 in
\* ascending order, each k recorded in naks, the chunk stored, r+1 expected
AheadEffects ==
    LET packet == trace'[Len(trace')]
        r == Uint32(packet.seqNo)
        gap == [i \in 1..(Low(r) - Low(expectedSeqNo)) |-> U32(Low(expectedSeqNo) + i - 1)]
        wanted == <<getBytesFromPacket(MakePacket(1, r, PeerAddr, PeerPort, <<>>))>>
                    \o [i \in 1..Len(gap) |->
                          getBytesFromPacket(MakePacket(4, gap[i], PeerAddr, PeerPort, <<>>))]
    IN  /\ Len(out') >= Len(out) + Len(wanted)
        /\ SubSeq(out', Len(out) + 1, Len(out) + Len(wanted)) = wanted
        /\ naks' = naks \o gap
        /\ Slot(httpPayload', Low(r)) = packet.payload
        /\ expectedSeqNo' = Inc32(r)

\* C9: a not yet accepted DATA(r) with r > expectedSeqNo is answered by
\* ACK(r), then NAK(k) for exactly the k in [expectedSeqNo, r) in ascending
\* order, each recorded in naks; the payload is stored at reassembly[r] and
\* expectedSeqNo becomes r+1.
C9_AheadOfOrder == [][AheadStep => AheadEffects]_vars

\* the same for the seqNos that fit the 1024 reassembly slots
C9_AheadWithinBuffer ==
    [][(AheadStep /\ ~AtLeast(Uint32(trace'[Len(trace')].seqNo), HttpPayloadLen))
          => AheadEffects]_vars

(***************************************************************************)
(* Properties of the response emitter.                                     *)
(***************************************************************************)
\* the response bytes a retained packet carries: its payload without the
\* trailing count byte
ChunkOf(packet) == SubSeq(packet.payload, 1, Len(packet.payload) - 1)

RECURSIVE Joined(_, _)
Joined(packets, n) ==
    IF n = 0 THEN <<>> ELSE Joined(packets, n - 1) \o ChunkOf(packets[n])

EmitOver == epc \in {"returned", "panicked"}

\* C5: whatever the response text, the chunks of the retained response
\* packets, concatenated in order 1..N, are exactly the response text.
C5_Reconstruction ==
    EmitOver => Joined(epkts, Len(epkts)) = EmitResponse

\* the same for the calls that return
C5_ReconstructionWhenReturned ==
    epc = "returned" => Joined(epkts, Len(epkts)) = EmitResponse

\* C6: a response of exactly 1012*N bytes is chunked into exactly N DATA
\* packets of 1012 response bytes each, all of them transmitted and retained.
C6_ExactMultiple ==
    (ein.len % ChunkSize = 0 /\ EmitOver) =>
        /\ epc = "returned"
        /\ Len(epkts) = EmitCount
        /\ Len(eout) = EmitCount
        /\ \A i \in 1..Len(epkts) : Len(ChunkOf(epkts[i])) = ChunkSize

\* datagram i carries seqNo i, the response bytes [(i-1)*1012, i*1012) (the
\* last one the rest) and one trailing byte
DatagramIs(i, trailer) ==
    LET packet == parsePacket(eout[i])
        high == IF ChunkSize * i < ein.len THEN ChunkSize * i ELSE ein.len
    IN  /\ IsType(packet, 0)
        /\ Uint32(packet.seqNo) = U32(i)
        /\ packet.payload = Slice(EmitResponse, ChunkSize * (i - 1), high) \o <<trailer>>

WithResidue == ein.len % ChunkSize # 0

\* C7: a response of 1012*(N-1)+r bytes, 0 < r < 1012, is emitted as N DATA
\* packets; packet i has seqNo i and carries its 1012 bytes, the last one r
\* bytes, and every packet ends with one trailing byte equal to N.
C7_Chunking ==
    WithResidue =>
        /\ \A i \in 1..Len(eout) : DatagramIs(i, EmitCount)
        /\ epc = "returned" => Len(eout) = EmitCount

\* C7 as the code has it: the trailing byte is byte(N), that is N mod 256.
C7_ChunkingCountByte ==
    WithResidue =>
        /\ \A i \in 1..Len(eout) : DatagramIs(i, EmitCount % ByteRange)
        /\ epc = "returned" => Len(eout) = EmitCount

\* a response with a residue was emitted in full as several packets
C7_Witness ==
    WithResidue /\ epc = "returned" /\ Len(eout) = MaxPackets /\ Len(epkts) = MaxPackets

(***************************************************************************)
(* Properties of the codec.                                                *)
(***************************************************************************)
\* C8: decoding the encoded bytes of MakePacket(t, s, a, p, payload) yields
\* a packet whose type, seqNo, address octets, port and payload are the
\* inputs, for every type byte, 32-bit seqNo, dotted-quad address, 16-bit
\* port and payload of at most 1013 bytes.
C8_CodecRoundTrip ==
    cpc = "decoded" =>
        /\ cpkt.pType = <<cin.pType>>
        /\ Uint32(cpkt.seqNo) = cin.seqNo
        /\ cpkt.peerAddr = cin.octets
        /\ getAddressFromBytes(cpkt) = Dotted(cin.octets)
        /\ getPortFromBytes(cpkt) = cin.port
        /\ cpkt.payload = cin.payload
        /\ Len(cbytes) = HeaderLen + Len(cin.payload)

\* a packet with the largest seqNo, port and payload went through the codec
C8_Witness ==
    /\ cpc = "decoded"
    /\ cin.seqNo = MaxUint32
    /\ cin.port = Half - 1
    /\ Len(cin.payload) = MaxPayload
    /\ cin.octets = <<10, 0, 2, 255>>

(***************************************************************************)
(* Properties of the NAK-driven retransmission.                            *)
(***************************************************************************)
\* the datagram first transmitted for packet k of the response last emitted
Original(k) ==
    getResponsePacketBytes(1, PeerAddr, PeerPort,
        handleUdpConnection(bridgeLog[Len(bridgeLog)]))[k]

\* a step that dequeues NAK(s), 1 <= s <= N, after a response of N packets
NakInRange ==
    /\ Len(trace') = Len(trace) + 1
    /\ IsType(trace'[Len(trace')], 4)
    /\ responsePackets # <<>>
    /\ AtLeast(Uint32(trace'[Len(trace')].seqNo), 1)
    /\ ~AtLeast(Uint32(trace'[Len(trace')].seqNo), Len(responsePackets) + 1)

\* it retransmits, for every entry of the pending list in order, the bytes
\* first transmitted for that response packet
Retransmits ==
    /\ status' = "running"
    /\ responseNaksList' = Append(responseNaksList, trace'[Len(trace')])
    /\ out' = out \o [i \in 1..Len(responseNaksList') |->
                        Original(Low(Uint32(responseNaksList'[i].seqNo)))]

\* C10: after the response has been emitted as N packets, a NAK(s) with
\* 1 <= s <= N makes the session retransmit a datagram byte-for-byte equal to
\* the one first transmitted for response packet s, and so for every seqNo
\* in the pending NAK list.
C10_NakRetransmission == [][NakInRange => Retransmits]_vars

\* every response the session has emitted answers the same request text
OneRequest == \A i \in 1..Len(bridgeLog) : bridgeLog[i] = bridgeLog[1]

\* the same for the sessions that served one request text
C10_RetransmissionOfOneResponse ==
    [][(NakInRange /\ OneRequest) => Retransmits]_vars

(***************************************************************************)
(* Properties of the completion, the handshake and the peer's ACKs.        *)
(***************************************************************************)
\* the packet dequeued by the step
Dequeued == trace'[Len(trace')]

\* the step dequeues a packet of type t
Dequeues(t) == Len(trace') = Len(trace) + 1 /\ IsType(Dequeued, t)

\* C11: the response is emitted once per session: whatever packets follow
\* the completion of the request (duplicate DATA, DATA outside 4..4+K-1,
\* SYN, ACK), the HTTP bridge is never invoked a second time.
C11_EmittedOnce == Len(bridgeLog) <= 1

\* what the code keeps instead: the bridge is invoked only by a DATA packet
\* whose seqNo is not yet in acks, never by a duplicate, a SYN, an ACK or a NAK
C11_OnlyAcceptedDataEmits ==
    [][bridgeLog' # bridgeLog =>
          /\ Dequeues(0)
          /\ ~inAcks(Uint32(Dequeued.seqNo), acks)]_vars

\* the SYN packets dequeued so far
Syns == {i \in 1..Len(trace) : IsType(trace[i], 2)}

\* the only SYN of the session carries a payload that is no decimal integer
CorruptHandshake ==
    /\ Cardinality(Syns) = 1
    /\ \A i \in Syns : Atoi(trace[i].payload).err

\* C12: when the only SYN of a session carries a payload that is not a
\* decimal integer, totalNumPackets stays 0 and no DATA packet completes the
\* request: the HTTP bridge is never invoked.
C12_CorruptHandshake ==
    CorruptHandshake => (totalNumPackets = 0 /\ bridgeLog = <<>>)

\* what the code keeps instead: totalNumPackets stays 0
C12_CountStaysZero == CorruptHandshake => totalNumPackets = 0

\* C17: the session never emits ACK(r) without having dequeued a DATA packet
\* with seqNo r: in every state, for every ACK written, the number of ACKs
\* with its seqNo is at most the number of DATA packets dequeued with it.
C17_AckCausality ==
    \A i \in 1..Len(out) :
        LET packet == parsePacket(out[i])
        IN  IsType(packet, 1) =>
                AcksEmitted(Low(Uint32(packet.seqNo)))
                    <= DataDequeued(Low(Uint32(packet.seqNo)))

\* a DATA packet ahead of order was ACKed, and two copies of it dequeued
C17_Witness ==
    /\ AcksEmitted(InitialSeqNo + 1) = 1
    /\ DataDequeued(InitialSeqNo + 1) = 2
    /\ DataDequeued(InitialSeqNo) = 0

\* s + 1 modulo 2^32
Successor(s) ==
    IF s = MaxUint32 THEN U32(0)
    ELSE IF s[2] = Half - 1 THEN <<s[1] + 1, 0>>
    ELSE <<s[1], s[2] + 1>>

PeerAcks == Dequeues(1) /\ Uint32(Dequeued.seqNo) # U32(HandshakeAck)

\* C19: when the session dequeues ACK(s) with s # 3, no entry with seqNo s
\* remains in the pending NAK list, whatever NAKs preceded, repeated NAKs
\* for s included, and the packets written are those of the entries left.
C19_PeerAck ==
    [][PeerAcks =>
          /\ \A i \in 1..Len(responseNaksList') :
                Uint32(responseNaksList'[i].seqNo) # Uint32(Dequeued.seqNo)
          /\ Len(out') = Len(out) + Len(responseNaksList')]_vars

\* what the code does instead: the first entry with seqNo s is removed
C19_FirstEntryRemoved ==
    [][PeerAcks => responseNaksList' = remove(responseNaksList, Dequeued)]_vars

\* the step dequeues a DATA packet whose seqNo an earlier DATA packet carried
SecondData ==
    /\ Dequeues(0)
    /\ \E i \in 1..Len(trace) :
          IsType(trace[i], 0) /\ trace[i].seqNo = Dequeued.seqNo

\* C20: a chunk stored at reassembly[r] is never changed by a later packet,
\* and a second DATA(r), even with another payload, leaves the reassembly
\* buffer, expectedSeqNo and naks unchanged.
C20_WriteOnce ==
    [][/\ \A k \in DOMAIN httpPayload :
             k \in DOMAIN httpPayload' /\ httpPayload'[k] = httpPayload[k]
       /\ SecondData => UNCHANGED <<httpPayload, expectedSeqNo, naks>>]_vars

\* DATA(4) was dequeued twice with different payloads; the first is stored
C20_Witness ==
    \E i, j \in 1..Len(trace) :
        /\ i < j
        /\ IsType(trace[i], 0) /\ IsType(trace[j], 0)
        /\ Uint32(trace[i].seqNo) = U32(InitialSeqNo)
        /\ Uint32(trace[j].seqNo) = U32(InitialSeqNo)
        /\ trace[i].payload # trace[j].payload
        /\ trace[i].payload # <<>>
        /\ Slot(httpPayload, InitialSeqNo) = trace[i].payload


(***************************************************************************)
(* Properties of the server loop and the session registry.                 *)
(***************************************************************************)
\* the keys of the two peers
KeyOf(port) == ClientKey(parsePacket(Datagram(2, U32(2), port, <<49>>)))
ServerKeys == {KeyOf(PeerPort), KeyOf(OtherPort)}

\* the step is an iteration of the server loop on a datagram it read
LoopStep == datagram' # datagram \/ wire' # wire \/ process' # process

\* the iteration read a datagram shorter than the 11 bytes of a header
ShortRead == ParsePanics(datagram') /\ LoopStep

\* C13: a datagram shorter than 11 bytes, the empty one included, is dropped:
\* the loop creates no session for it, enqueues nothing, leaves every session
\* as it is and goes on to serve the next datagram.
C13_MalformedDropped ==
    [][ShortRead =>
          /\ process' = "running"
          /\ UNCHANGED <<clients, doneMap, chans, tasks>>]_vars

\* what the code does instead: parsePacket panics in the server loop and the
\* process ends, sessions and all
C13_MalformedCrashes ==
    [][ShortRead =>
          /\ process' = "crashed"
          /\ UNCHANGED <<clients, doneMap, chans, tasks>>]_vars

\* the session of a key has emitted its response, the peer has ACKed every
\* packet of it and no NAK is pending
Finished(key) ==
    \E i \in 1..Len(tasks) :
        /\ tasks[i].key = key
        /\ tasks[i].s.responsePackets # <<>>
        /\ tasks[i].s.responseNaksList = <<>>
        /\ \A k \in 1..Len(tasks[i].s.responsePackets) :
              \E j \in 1..Len(tasks[i].dequeued) :
                  /\ tasks[i].dequeued[j].item.pType = <<1>>
                  /\ Uint32(tasks[i].dequeued[j].item.seqNo) = U32(k)

\* the key is out of the registry, its channel closed and its goroutine ended
TornDown(key) ==
    /\ key \notin DOMAIN clients
    /\ \A i \in 1..Len(tasks) :
          tasks[i].key = key => tasks[i].pc = "returned" /\ chans[tasks[i].ch].closed

\* C14: under fair scheduling, a session whose response has been emitted and
\* whose response packets are all acknowledged is eventually torn down: its
\* key leaves the registry, its inbox is closed and its task terminates.
C14_Teardown == \A key \in ServerKeys : Finished(key) ~> TornDown(key)

\* what the code keeps instead: no done signal is ever raised, so no key
\* leaves the registry, no channel is closed and no session goroutine returns
C14_NeverTornDown ==
    /\ \A key \in DOMAIN doneMap : doneMap[key] = <<>>
    /\ DOMAIN clients = DOMAIN wire
    /\ \A i \in 1..Len(chans) : ~chans[i].closed
    /\ \A i \in 1..Len(tasks) : tasks[i].pc = "ranging"

\* the iteration decoded the datagram it read
Decoded == ~ParsePanics(datagram') /\ wire' # wire

\* the buffer of the channel the registry holds for a key
Inbox(registry, channels, key) ==
    IF key \in DOMAIN registry THEN channels[registry[key]].buf ELSE <<>>

\* C15: for every decoded datagram the server loop either finds a pending
\* done signal, removes the session and drops the datagram, or enqueues the
\* packet into an open inbox holding fewer than 1024 packets, or drops the
\* packet when the inbox holds 1024; it never sends on a closed inbox,
\* touches no other peer's inbox and goes on to the next read.
C15_NonBlockingDispatch ==
    [][Decoded =>
          LET packet == parsePacket(datagram')
              key == ClientKey(packet)
              inbox == Inbox(clients, chans, key)
              done == key \in DOMAIN doneMap /\ doneMap[key] # <<>>
          IN  /\ process' = "running"
              /\ \/ /\ done
                    /\ key \notin DOMAIN clients'
                    /\ \A i \in 1..Len(chans) : chans'[i].buf = chans[i].buf
                 \/ /\ ~done
                    /\ BufLen(inbox) < InboxCap
                    /\ ~chans'[clients'[key]].closed
                    /\ Inbox(clients', chans', key) = Push(inbox, packet)
                 \/ /\ ~done
                    /\ BufLen(inbox) = InboxCap
                    /\ Inbox(clients', chans', key) = inbox
              /\ \A other \in (DOMAIN clients) \ {key} :
                    Inbox(clients', chans', other) = Inbox(clients, chans, other)]_vars

\* the inbox of the first peer is full, a packet of it was dropped, and the
\* loop went on to dispatch a packet of the second peer
C15_Witness ==
    /\ process = "running"
    /\ BufLen(Inbox(clients, chans, KeyOf(PeerPort))) = InboxCap
    /\ Reads(KeyOf(PeerPort)) > InboxCap + BufLen(tasks[1].dequeued)
    /\ ~ParsePanics(datagram)
    /\ ClientKey(parsePacket(datagram)) = KeyOf(OtherPort)
    /\ Inbox(clients, chans, KeyOf(OtherPort)) # <<>>

\* a is b with some entries left out
RECURSIVE IsSubsequence(_, _)
IsSubsequence(a, b) ==
    IF a = <<>> THEN TRUE
    ELSE IF b = <<>> THEN FALSE
    ELSE IF Head(a) = Head(b) THEN IsSubsequence(Tail(a), Tail(b))
    ELSE IsSubsequence(a, Tail(b))

\* C16: the packets a session's receive task has dequeued are, in order, a
\* subsequence of the packets of its key in the order the server loop read
\* them: no two packets of a peer are processed in swapped order.
C16_PerPeerOrder ==
    \A i \in 1..Len(tasks) :
        IsSubsequence(Expand(tasks[i].dequeued), Expand(wire[tasks[i].key]))

\* both sessions have dequeued several packets while the other peer's
\* packets were read in between
C16_Witness ==
    /\ process = "running"
    /\ Len(tasks) = 2
    /\ Len(tasks[1].dequeued) = 3
    /\ Len(tasks[2].dequeued) = 2
    /\ tasks[1].key # tasks[2].key


(***************************************************************************)
(* Properties of ignored packets, the registry and the index bounds.       *)
(***************************************************************************)
\* the step dequeues a handshake ACK, a SYN-ACK or a packet of unknown type
Ignored ==
    /\ Len(trace') = Len(trace) + 1
    /\ \/ IsType(Dequeued, 1) /\ Uint32(Dequeued.seqNo) = U32(HandshakeAck)
       \/ Dequeued.pType[1] \notin {0, 1, 2, 4}

\* C21: dequeuing an ACK with seqNo 3, a SYN-ACK or a packet whose type byte
\* is not in {0,1,2,4} leaves every session variable unchanged and emits no
\* datagram, in every session state.
C21_IgnoredPackets ==
    [][Ignored =>
          UNCHANGED <<expectedSeqNo, acks, naks, httpPayload, totalNumPackets,
                      responsePackets, responseNaksList, out, status,
                      bridgeLog>>]_vars

\* a handshake ACK was ignored while a response was retained and a NAK of
\* the peer pending
C21_Witness ==
    /\ Len(trace) > 1
    /\ IsType(trace[Len(trace)], 1)
    /\ Uint32(trace[Len(trace)].seqNo) = U32(HandshakeAck)
    /\ responsePackets # <<>>
    /\ responseNaksList # <<>>
    /\ status = "running"

\* the registry after the step holds, for each key, the channel of exactly
\* one goroutine, spawned for that key; every packet the loop decoded for
\* a key carries that key's address and port, and no two keys share them
OneTaskPerEntry ==
    /\ \A key \in DOMAIN clients' :
          /\ Cardinality({i \in 1..Len(tasks') : tasks'[i].ch = clients'[key]}) = 1
          /\ \A i \in 1..Len(tasks') :
                tasks'[i].ch = clients'[key] => tasks'[i].key = key
    /\ \A key \in DOMAIN wire' :
          \A j \in 1..Len(wire'[key]) :
              /\ wire'[key][j].item.peerAddr = wire'[key][1].item.peerAddr
              /\ wire'[key][j].item.peerPort = wire'[key][1].item.peerPort
    /\ \A a, b \in DOMAIN wire' :
          (/\ wire'[a][1].item.peerAddr = wire'[b][1].item.peerAddr
           /\ wire'[a][1].item.peerPort = wire'[b][1].item.peerPort) => a = b

\* a goroutine is spawned only by the datagram that creates the registry
\* entry of its key, on a new channel holding that packet alone, and starts
\* from the initial session state
SpawnedFresh ==
    IF Len(tasks') = Len(tasks) THEN DOMAIN clients' \subseteq DOMAIN clients
    ELSE LET task == tasks'[Len(tasks')]
         IN  /\ Len(tasks') = Len(tasks) + 1
             /\ task.key \notin DOMAIN clients
             /\ task.key = ClientKey(parsePacket(datagram'))
             /\ clients'[task.key] = task.ch
             /\ task.ch = Len(chans) + 1
             /\ chans'[task.ch].buf = Push(<<>>, parsePacket(datagram'))
             /\ task.dequeued = <<>>
             /\ task.s.expectedSeqNo = U32(InitialSeqNo)
             /\ task.s.httpPayload = <<>>
             /\ task.s.responsePackets = <<>>
             /\ task.s.totalNumPackets = 0

\* no two live goroutines of one key both receive from channels the server
\* loop can still send on
NoTwoLiveTasks ==
    \A i, j \in 1..Len(tasks') :
        (/\ i # j
         /\ tasks'[i].key = tasks'[j].key
         /\ tasks'[i].pc = "ranging" /\ tasks'[j].pc = "ranging")
            => \E k \in {i, j} :
                  \/ tasks'[k].key \notin DOMAIN clients'
                  \/ clients'[tasks'[k].key] # tasks'[k].ch

\* C22: for each key addr:port one receive task is spawned per registry
\* entry, by the datagram that creates the entry, later datagrams of the key
\* sharing its inbox; a datagram for a key that is not in the registry
\* creates a new entry and a task in the initial state; never do two live
\* tasks of one key both consume inboxes the server loop can enqueue into.
C22_RegistryUniqueness ==
    [][OneTaskPerEntry /\ SpawnedFresh /\ NoTwoLiveTasks]_vars

\* two peers have one session each, and later datagrams of both were
\* enqueued into the inboxes their first datagrams created
C22_Witness ==
    /\ process = "running"
    /\ DOMAIN clients = ServerKeys
    /\ Len(tasks) = 2
    /\ \A key \in ServerKeys : Reads(key) >= 2
    /\ \A i \in 1..Len(tasks) : BufLen(tasks[i].dequeued) >= 1

\* the step dequeues a NAK, or an ACK other than the handshake ACK
Retransmitting == Dequeues(4) \/ PeerAcks

\* C23: whenever the session retransmits for the pending NAK list, every
\* pending seqNo s satisfies 1 <= s <= number of retained response packets:
\* no NAK or ACK, before a response or with seqNo 0 or beyond N, crashes
\* the session task.
C23_IndexSafety ==
    [][Retransmitting =>
          /\ \A i \in 1..Len(responseNaksList') :
                /\ AtLeast(Uint32(responseNaksList'[i].seqNo), 1)
                /\ ~AtLeast(Uint32(responseNaksList'[i].seqNo),
                            Len(responsePackets) + 1)
          /\ status' = "running"]_vars

\* the step dequeues a DATA packet whose seqNo is not yet in acks
Accepting == Dequeues(0) /\ ~inAcks(Uint32(Dequeued.seqNo), acks)

\* C24: for every DATA seqNo r and every packet count K accepted from a SYN,
\* the store at reassembly[r] and the range reassembly[4 .. 4+K) stay within
\* the 1024 slots of the reassembly buffer.
C24_BoundsSafety ==
    [][Accepting =>
          /\ ~AtLeast(Uint32(Dequeued.seqNo), HttpPayloadLen)
          /\ InitialSeqNo + totalNumPackets <= HttpPayloadLen]_vars

\* what the code keeps instead: a seqNo of 1024 or more, or a count K of
\* 1021 or more, ends the session task in a panic
C24_OutOfRangePanics ==
    [][(/\ Accepting
        /\ \/ AtLeast(Uint32(Dequeued.seqNo), HttpPayloadLen)
           \/ InitialSeqNo + totalNumPackets > HttpPayloadLen)
          => status' = "panicked"]_vars


====
